---------------------------- MODULE Spec2Model ----------------------------
(***************************************************************************)
(* A model of gotype's astTypeGenerator (src/ast.go): the batch resolver   *)
(* GenerateTypesFromSpecs, the per-package file scan, the import table     *)
(* builder and the recursive lowering of type expressions, including the   *)
(* re-entrant resolution of embedded interfaces.                           *)
(*                                                                         *)
(* Go strings are sequences of one-character strings, so that prefix,      *)
(* suffix, substring, case and formatting operations are computed.         *)
(***************************************************************************)
EXTENDS Naturals, Sequences, FiniteSets, TLC

VARIABLES
    callArgs,   \* the typeSpecs argument of the top-level calls
    stack,      \* activation records of GenerateTypesFromSpecs, innermost last
    outcomes,   \* what the completed top-level calls returned, in call order
    input,      \* the argument of a helper applied on its own
    output      \* what that helper returned

vars == <<callArgs, stack, outcomes, input, output>>

Nil == [nil |-> TRUE]

----------------------------------------------------------------------------
(* Strings *)

Last(s) == s[Len(s)]

Front(s) == SubSeq(s, 1, Len(s) - 1)

HasPrefix(s, p) == Len(p) <= Len(s) /\ SubSeq(s, 1, Len(p)) = p

HasSuffix(s, p) ==
    Len(p) <= Len(s) /\ SubSeq(s, Len(s) - Len(p) + 1, Len(s)) = p

\* strings.Contains
Contains(s, sub) ==
    \E i \in 0..Len(s) :
        i + Len(sub) <= Len(s) /\ SubSeq(s, i + 1, i + Len(sub)) = sub

TrimPrefix(s, p) == IF HasPrefix(s, p) THEN SubSeq(s, Len(p) + 1, Len(s)) ELSE s

TrimSuffix(s, p) == IF HasSuffix(s, p) THEN SubSeq(s, 1, Len(s) - Len(p)) ELSE s

\* the index of the last occurrence of character c in s, 0 when there is none
LastIndex(s, c) ==
    LET at == {i \in 1..Len(s) : s[i] = c}
    IN  IF at = {} THEN 0 ELSE CHOOSE i \in at : \A j \in at : j <= i

\* the index of the first occurrence of character c in s, 0 when there is none
FirstIndex(s, c) ==
    LET at == {i \in 1..Len(s) : s[i] = c}
    IN  IF at = {} THEN 0 ELSE CHOOSE i \in at : \A j \in at : i <= j

RECURSIVE TrimSlashes(_)
TrimSlashes(s) ==
    IF Len(s) > 0 /\ Last(s) = "/" THEN TrimSlashes(Front(s)) ELSE s

\* path.Base: the last element of the path, trailing slashes removed first
PathBase(s) ==
    IF s = <<>> THEN <<".">>
    ELSE LET t == TrimSlashes(s)
             b == SubSeq(t, LastIndex(t, "/") + 1, Len(t))
         IN  IF b = <<>> THEN <<"/">> ELSE b

\* strings.Split(s, ".")[0]
BeforeFirstDot(s) ==
    IF FirstIndex(s, ".") = 0 THEN s ELSE SubSeq(s, 1, FirstIndex(s, ".") - 1)

Digits == <<"0", "1", "2", "3", "4", "5", "6", "7", "8", "9">>

\* fmt's %d of a non-negative int
RECURSIVE Itoa(_)
Itoa(n) ==
    IF n < 10 THEN <<Digits[n + 1]>>
    ELSE Itoa(n \div 10) \o <<Digits[(n % 10) + 1]>>

LowerCase ==
    <<"a", "b", "c", "d", "e", "f", "g", "h", "i", "j", "k", "l", "m",
      "n", "o", "p", "q", "r", "s", "t", "u", "v", "w", "x", "y", "z">>

UpperCase ==
    <<"A", "B", "C", "D", "E", "F", "G", "H", "I", "J", "K", "L", "M",
      "N", "O", "P", "Q", "R", "S", "T", "U", "V", "W", "X", "Y", "Z">>

ToLower(s) ==
    [i \in 1..Len(s) |->
        IF \E k \in 1..Len(UpperCase) : UpperCase[k] = s[i]
        THEN LowerCase[CHOOSE k \in 1..Len(UpperCase) : UpperCase[k] = s[i]]
        ELSE s[i]]

ToUpper(s) ==
    [i \in 1..Len(s) |->
        IF \E k \in 1..Len(LowerCase) : LowerCase[k] = s[i]
        THEN UpperCase[CHOOSE k \in 1..Len(LowerCase) : LowerCase[k] = s[i]]
        ELSE s[i]]

Capitalize(s) == ToUpper(SubSeq(s, 1, 1)) \o SubSeq(s, 2, Len(s))

\* a Go map read: the zero value (the empty string) for a missing key
MapGet(m, k) == IF k \in DOMAIN m THEN m[k] ELSE <<>>

MapPut(m, k, v) == [x \in DOMAIN m \cup {k} |-> IF x = k THEN v ELSE m[x]]

EmptyMap == [x \in {} |-> <<>>]

----------------------------------------------------------------------------
(* The canonical type model (the repository's Type and its variants).      *)
(* A Type has one populated variant, named by v; every other pointer field *)
(* of the Go struct is nil.                                                *)

PrimitiveKindBool == <<"b", "o", "o", "l">>
PrimitiveKindByte == <<"b", "y", "t", "e">>
PrimitiveKindRune == <<"r", "u", "n", "e">>
PrimitiveKindInt == <<"i", "n", "t">>
PrimitiveKindInt8 == <<"i", "n", "t", "8">>
PrimitiveKindInt16 == <<"i", "n", "t", "1", "6">>
PrimitiveKindInt32 == <<"i", "n", "t", "3", "2">>
PrimitiveKindInt64 == <<"i", "n", "t", "6", "4">>
PrimitiveKindUint == <<"u", "i", "n", "t">>
PrimitiveKindUint8 == <<"u", "i", "n", "t", "8">>
PrimitiveKindUint16 == <<"u", "i", "n", "t", "1", "6">>
PrimitiveKindUint32 == <<"u", "i", "n", "t", "3", "2">>
PrimitiveKindUint64 == <<"u", "i", "n", "t", "6", "4">>
PrimitiveKindUintptr == <<"u", "i", "n", "t", "p", "t", "r">>
PrimitiveKindFloat32 == <<"f", "l", "o", "a", "t", "3", "2">>
PrimitiveKindFloat64 == <<"f", "l", "o", "a", "t", "6", "4">>
PrimitiveKindComplex64 == <<"c", "o", "m", "p", "l", "e", "x", "6", "4">>
PrimitiveKindComplex128 == <<"c", "o", "m", "p", "l", "e", "x", "1", "2", "8">>
PrimitiveKindString == <<"s", "t", "r", "i", "n", "g">>
PrimitiveKindError == <<"e", "r", "r", "o", "r">>

\* the names of the primitive kinds, and "error"
PrimitiveNames ==
    { PrimitiveKindBool, PrimitiveKindByte, PrimitiveKindRune, PrimitiveKindInt,
      PrimitiveKindInt8, PrimitiveKindInt16, PrimitiveKindInt32,
      PrimitiveKindInt64, PrimitiveKindUint, PrimitiveKindUint8,
      PrimitiveKindUint16, PrimitiveKindUint32, PrimitiveKindUint64,
      PrimitiveKindUintptr, PrimitiveKindFloat32, PrimitiveKindFloat64,
      PrimitiveKindComplex64, PrimitiveKindComplex128, PrimitiveKindString,
      <<"e", "r", "r", "o", "r">> }

\* Type{<variant>: &payload}: the one non-nil pointer field and what it holds
Type(variant, payload) == [v |-> variant, p |-> payload]

PrimitiveType(kind) == [Kind |-> kind]

QualType(package, short, name) ==
    [Package |-> package, ShortPackagePath |-> short, Name |-> name]

PtrType(elem) == [Elem |-> elem]

SliceType(elem) == [Elem |-> elem]

ArrayTypeOf(len, elem) == [Len |-> len, Elem |-> elem]

MapTypeOf(key, elem) == [Key |-> key, Elem |-> elem]

ChanTypeOf(dir, elem) == [Dir |-> dir, Elem |-> elem]

FuncTypeOf(inputs, outputs, isVariadic) ==
    [Inputs |-> inputs, Outputs |-> outputs, IsVariadic |-> isVariadic]

StructTypeOf(fields) == [Fields |-> fields]

InterfaceTypeOf(methods) == [Methods |-> methods]

TypeField(name, type) == [Name |-> name, Type |-> type]

InterfaceTypeMethod(name, func) == [Name |-> name, Func |-> func]

\* a request: Type{...}'s key in the result maps
TypeSpec(packagePath, name) == [PackagePath |-> packagePath, Name |-> name]

----------------------------------------------------------------------------
(* The syntax trees go/parser produces, as far as the generator reads them *)

Ident(name) == [kind |-> "Ident", Name |-> name]

SelectorExpr(x, sel) == [kind |-> "SelectorExpr", X |-> x, Sel |-> sel]

StarExpr(x) == [kind |-> "StarExpr", X |-> x]

\* len is Nil for a slice
ArrayType(len, elt) == [kind |-> "ArrayType", Len |-> len, Elt |-> elt]

BasicLit(value) == [kind |-> "BasicLit", Value |-> value]

\* a field list; a signature without results has Nil for its result list
FieldList(list) == [List |-> list]

FuncType(params, resultList) ==
    [kind |-> "FuncType", Params |-> params, Results |-> resultList]

Ellipsis(elt) == [kind |-> "Ellipsis", Elt |-> elt]

MapType(key, value) == [kind |-> "MapType", Key |-> key, Value |-> value]

ChanType(dir, value) == [kind |-> "ChanType", Dir |-> dir, Value |-> value]

StructType(fields) == [kind |-> "StructType", Fields |-> fields]

InterfaceType(methods) == [kind |-> "InterfaceType", Methods |-> methods]

\* a shape outside generateTypeFromExpr's switch
ParenExpr(x) == [kind |-> "ParenExpr", X |-> x]

\* an entry of a field list: zero or more names and one type expression
Field(names, type) == [Names |-> names, Type |-> type]

ImportSpec(name, pathValue) ==
    [kind |-> "ImportSpec", Name |-> name, Path |-> pathValue]

TypeDecl(name, type) == [kind |-> "TypeSpec", Name |-> name, Type |-> type]

ValueSpec(name) == [kind |-> "ValueSpec", Name |-> name]

\* a parsed file: its package clause and the specs of its general
\* declarations in source order
File(name, specs) == [Name |-> name, Specs |-> specs]

----------------------------------------------------------------------------
(* Outcomes.  A computation returns a value, returns an error, panics, or  *)
(* (in the model only) stops at a re-entrant call whose result it needs.   *)
(* rest is what is left of the re-entrant results handed to it.            *)

Ok(val, rest) == [st |-> "ok", val |-> val, rest |-> rest]

Err(format, a) == [st |-> "err", err |-> [Format |-> format, Arg |-> a]]

Failed(e) == [st |-> "err", err |-> e]

Panic == [st |-> "panic"]

NeedsCall(spec) == [st |-> "call", spec |-> spec]

----------------------------------------------------------------------------
(* Lowering of type expressions.  emb holds, in call order, the outcomes   *)
(* of the re-entrant GenerateTypesFromSpecs calls this lowering has        *)
(* already made; a lowering that reaches an embedding reference with none  *)
(* left stops with NeedsCall and is run again once the callee returned.    *)

ShortSuffix == <<"_", "_", "s", "h", "o", "r", "t">>

\* generateTypeFromIdent, were it to fold the identifier's case before
\* matching it
generateTypeFromIdentFolded(ident, packagePath, importMap) ==
    IF ToLower(ident.Name) \in PrimitiveNames
    THEN Type("PrimitiveType", PrimitiveType(ToLower(ident.Name)))
    ELSE Type("QualType",
              QualType(packagePath,
                       MapGet(importMap, packagePath \o ShortSuffix),
                       ident.Name))

generateTypeFromIdent(ident, packagePath, importMap) ==
    CASE ident.Name = PrimitiveKindBool ->
             Type("PrimitiveType", PrimitiveType(PrimitiveKindBool))
      [] ident.Name = PrimitiveKindByte ->
             Type("PrimitiveType", PrimitiveType(PrimitiveKindByte))
      [] ident.Name = PrimitiveKindRune ->
             Type("PrimitiveType", PrimitiveType(PrimitiveKindRune))
      [] ident.Name = PrimitiveKindInt ->
             Type("PrimitiveType", PrimitiveType(PrimitiveKindInt))
      [] ident.Name = PrimitiveKindInt8 ->
             Type("PrimitiveType", PrimitiveType(PrimitiveKindInt8))
      [] ident.Name = PrimitiveKindInt16 ->
             Type("PrimitiveType", PrimitiveType(PrimitiveKindInt16))
      [] ident.Name = PrimitiveKindInt32 ->
             Type("PrimitiveType", PrimitiveType(PrimitiveKindInt32))
      [] ident.Name = PrimitiveKindInt64 ->
             Type("PrimitiveType", PrimitiveType(PrimitiveKindInt64))
      [] ident.Name = PrimitiveKindUint ->
             Type("PrimitiveType", PrimitiveType(PrimitiveKindUint))
      [] ident.Name = PrimitiveKindUint8 ->
             Type("PrimitiveType", PrimitiveType(PrimitiveKindUint8))
      [] ident.Name = PrimitiveKindUint16 ->
             Type("PrimitiveType", PrimitiveType(PrimitiveKindUint16))
      [] ident.Name = PrimitiveKindUint32 ->
             Type("PrimitiveType", PrimitiveType(PrimitiveKindUint32))
      [] ident.Name = PrimitiveKindUint64 ->
             Type("PrimitiveType", PrimitiveType(PrimitiveKindUint64))
      [] ident.Name = PrimitiveKindUintptr ->
             Type("PrimitiveType", PrimitiveType(PrimitiveKindUintptr))
      [] ident.Name = PrimitiveKindFloat32 ->
             Type("PrimitiveType", PrimitiveType(PrimitiveKindFloat32))
      [] ident.Name = PrimitiveKindFloat64 ->
             Type("PrimitiveType", PrimitiveType(PrimitiveKindFloat64))
      [] ident.Name = PrimitiveKindComplex64 ->
             Type("PrimitiveType", PrimitiveType(PrimitiveKindComplex64))
      [] ident.Name = PrimitiveKindComplex128 ->
             Type("PrimitiveType", PrimitiveType(PrimitiveKindComplex128))
      [] ident.Name = PrimitiveKindString ->
             Type("PrimitiveType", PrimitiveType(PrimitiveKindString))
      [] ident.Name = <<"e", "r", "r", "o", "r">> ->
             Type("PrimitiveType", PrimitiveType(PrimitiveKindError))
      [] OTHER ->
             Type("QualType",
                  QualType(packagePath,
                           MapGet(importMap, packagePath \o ShortSuffix),
                           ident.Name))

generateTypeFromSelectorExpr(selectorExpr, importMap) ==
    IF selectorExpr.X.kind # "Ident"
    THEN Err("unrecognized expr: %v", <<>>)
    ELSE LET shortImport == selectorExpr.X.Name
         IN  IF shortImport \notin DOMAIN importMap
             THEN Err("unrecognized identifier: %s", shortImport)
             ELSE Ok(Type("QualType",
                          QualType(importMap[shortImport], shortImport,
                                   selectorExpr.Sel)),
                     <<>>)

\* the decimal value of a string of digits; ok is FALSE for anything else
RECURSIVE ParseDigits(_, _)
ParseDigits(s, acc) ==
    IF s = <<>> THEN acc
    ELSE ParseDigits(Tail(s),
                     10 * acc + (CHOOSE d \in 0..9 : Digits[d + 1] = Head(s)))

parseInt(s) ==
    IF s # <<>> /\ \A i \in 1..Len(s) : \E d \in 1..10 : Digits[d] = s[i]
    THEN [val |-> ParseDigits(s, 0), ok |-> TRUE]
    ELSE [val |-> 0, ok |-> FALSE]

\* the names generateTypeFromFieldList gives the entries of a field list
RECURSIVE NamesLoop(_, _, _, _, _)
NamesLoop(params, k, prefix, i, names) ==
    IF k > Len(params) THEN names
    ELSE IF Len(params[k].Names) > 0
         THEN NamesLoop(params, k + 1, prefix, i, names \o params[k].Names)
         ELSE NamesLoop(params, k + 1, prefix, i + 1,
                        Append(names, prefix \o Itoa(i + 1)))

\* getNamesFromExpr, were its counter to advance on every entry
RECURSIVE NamesLoopCountingAll(_, _, _, _, _)
NamesLoopCountingAll(params, k, prefix, i, names) ==
    IF k > Len(params) THEN names
    ELSE IF Len(params[k].Names) > 0
         THEN NamesLoopCountingAll(params, k + 1, prefix, i + 1,
                                   names \o params[k].Names)
         ELSE NamesLoopCountingAll(params, k + 1, prefix, i + 1,
                                   Append(names, prefix \o Itoa(i + 1)))

getNamesFromExprCountingAll(params, prefix) ==
    NamesLoopCountingAll(params, 1, prefix, 0, <<>>)

getNamesFromExpr(params, prefix) == NamesLoop(params, 1, prefix, 0, <<>>)

getInputNamesFromAst(inputs) == getNamesFromExpr(inputs, <<"a", "r", "g">>)

getOutputNamesFromAst(inputs) == getNamesFromExpr(inputs, <<"o", "u", "t">>)

\* EmbedInterface, were it to put the embedded methods first
EmbedInterfaceInFront(spec, emb, methods) ==
    IF emb = <<>> THEN NeedsCall(spec)
    ELSE IF Head(emb).st = "err" THEN Failed(Head(emb).err)
    ELSE IF Head(emb).val[1].v # "InterfaceType" THEN Panic
    ELSE Ok(Head(emb).val[1].p.Methods \o methods, Tail(emb))

\* the result of a re-entrant resolve of spec, spliced into methods
EmbedInterface(spec, emb, methods) ==
    IF emb = <<>> THEN NeedsCall(spec)
    ELSE IF Head(emb).st = "err" THEN Failed(Head(emb).err)
    ELSE IF Head(emb).val[1].v # "InterfaceType" THEN Panic
    ELSE Ok(methods \o Head(emb).val[1].p.Methods, Tail(emb))

RECURSIVE generateTypeFromExpr(_, _, _, _)
RECURSIVE generateTypeFromFuncType(_, _, _, _)
RECURSIVE FieldListLoop(_, _, _, _, _, _, _, _, _)
RECURSIVE StructLoop(_, _, _, _, _, _, _)
RECURSIVE InterfaceLoop(_, _, _, _, _, _)

generateTypeFromStarExpr(starExpr, packagePath, importMap, emb) ==
    LET elem == generateTypeFromExpr(starExpr.X, packagePath, importMap, emb)
    IN  IF elem.st # "ok" THEN elem ELSE Ok(PtrType(elem.val), elem.rest)

generateTypeFromArrayType(arrayType, packagePath, importMap, emb) ==
    LET elem == generateTypeFromExpr(arrayType.Elt, packagePath, importMap, emb)
    IN  IF arrayType.Len = Nil
        THEN IF elem.st # "ok" THEN elem
             ELSE Ok(Type("SliceType", SliceType(elem.val)), elem.rest)
        ELSE IF arrayType.Len.kind # "BasicLit"
             THEN Err("unrecognized array length: %v", <<>>)
        ELSE IF ~parseInt(arrayType.Len.Value).ok
             THEN Err("unrecognized array length: %v", arrayType.Len.Value)
        ELSE IF elem.st # "ok" THEN elem
        ELSE Ok(Type("ArrayType",
                     ArrayTypeOf(parseInt(arrayType.Len.Value).val, elem.val)),
                elem.rest)

\* entries k.. of a field list; i names have been handed out so far
FieldListLoop(list, k, names, i, packagePath, importMap, emb, types, isVariadic) ==
    IF k > Len(list) THEN Ok([types |-> types, isVariadic |-> isVariadic], emb)
    ELSE LET field == list[k]
             ell == field.Type.kind = "Ellipsis"
             typExpr == IF ell THEN field.Type.Elt ELSE field.Type
             typ == generateTypeFromExpr(typExpr, packagePath, importMap, emb)
             n == IF Len(field.Names) = 0 THEN 1 ELSE Len(field.Names)
         IN  IF typ.st # "ok" THEN typ
             ELSE FieldListLoop(list, k + 1, names, i + n, packagePath,
                                importMap, typ.rest,
                                types \o [j \in 1..n |->
                                            TypeField(names[i + j], typ.val)],
                                isVariadic \/ ell)

generateTypeFromFieldList(fields, names, packagePath, importMap, emb) ==
    IF fields = Nil THEN Ok([types |-> <<>>, isVariadic |-> FALSE], emb)
    ELSE FieldListLoop(fields.List, 1, names, 0, packagePath, importMap, emb,
                       <<>>, FALSE)

generateTypeFromFuncType(funcType, packagePath, importMap, emb) ==
    LET params == generateTypeFromFieldList(
                      funcType.Params,
                      getInputNamesFromAst(funcType.Params.List),
                      packagePath, importMap, emb)
    IN  IF params.st # "ok" THEN params
        ELSE IF funcType.Results = Nil
        THEN Ok(FuncTypeOf(params.val.types, <<>>, params.val.isVariadic),
                params.rest)
        ELSE LET res == generateTypeFromFieldList(
                            funcType.Results,
                            getOutputNamesFromAst(funcType.Results.List),
                            packagePath, importMap, params.rest)
             IN  IF res.st # "ok" THEN res
                 ELSE Ok(FuncTypeOf(params.val.types, res.val.types,
                                    params.val.isVariadic),
                         res.rest)

generateTypeFromMapType(mapType, packagePath, importMap, emb) ==
    LET keyDef == generateTypeFromExpr(mapType.Key, packagePath, importMap, emb)
    IN  IF keyDef.st # "ok" THEN keyDef
        ELSE LET valDef == generateTypeFromExpr(mapType.Value, packagePath,
                                                importMap, keyDef.rest)
             IN  IF valDef.st # "ok" THEN valDef
                 ELSE Ok(MapTypeOf(keyDef.val, valDef.val), valDef.rest)

generateTypeFromChanType(chanType, packagePath, importMap, emb) ==
    LET c == generateTypeFromExpr(chanType.Value, packagePath, importMap, emb)
    IN  IF c.st # "ok" THEN c
        ELSE CASE chanType.Dir = "RECV" ->
                      Ok(ChanTypeOf("ChanTypeDirRecv", c.val), c.rest)
               [] chanType.Dir = "SEND" ->
                      Ok(ChanTypeOf("ChanTypeDirSend", c.val), c.rest)
               [] OTHER ->
                      Ok(ChanTypeOf("ChanTypeDirBoth", c.val), c.rest)

\* name j.. of entry k.. of a struct's field list: the entry's type is
\* lowered once for each of its names
StructLoop(list, k, j, packagePath, importMap, emb, fields) ==
    IF k > Len(list) THEN Ok(StructTypeOf(fields), emb)
    ELSE IF j > Len(list[k].Names)
         THEN StructLoop(list, k + 1, 1, packagePath, importMap, emb, fields)
    ELSE LET fieldType == generateTypeFromExpr(list[k].Type, packagePath,
                                               importMap, emb)
         IN  IF fieldType.st # "ok" THEN fieldType
             ELSE StructLoop(list, k, j + 1, packagePath, importMap,
                             fieldType.rest,
                             Append(fields,
                                    TypeField(list[k].Names[j], fieldType.val)))

generateTypeFromStructType(structType, packagePath, importMap, emb) ==
    IF structType.Fields = Nil THEN Ok(StructTypeOf(<<>>), emb)
    ELSE StructLoop(structType.Fields.List, 1, 1, packagePath, importMap, emb,
                    <<>>)

\* members k.. of an interface's method list
InterfaceLoop(list, k, packagePath, importMap, emb, methods) ==
    IF k > Len(list) THEN Ok(InterfaceTypeOf(methods), emb)
    ELSE LET field == list[k]
             t == field.Type
             step ==
                 CASE t.kind = "FuncType" ->
                          LET funcType == generateTypeFromFuncType(
                                              t, packagePath, importMap, emb)
                          IN  IF funcType.st # "ok" THEN funcType
                              ELSE Ok(Append(methods,
                                             InterfaceTypeMethod(
                                                 field.Names[1], funcType.val)),
                                      funcType.rest)
                   [] t.kind = "Ident" ->
                          EmbedInterface(TypeSpec(packagePath, t.Name), emb,
                                         methods)
                   [] t.kind = "SelectorExpr" ->
                          IF t.X.kind # "Ident" THEN Panic
                          ELSE EmbedInterface(
                                   TypeSpec(MapGet(importMap, t.X.Name), t.Sel),
                                   emb, methods)
                   [] OTHER -> Ok(methods, emb)
         IN  IF step.st # "ok" THEN step
             ELSE InterfaceLoop(list, k + 1, packagePath, importMap, step.rest,
                                step.val)

generateTypeFromInterfaceType(interfaceType, packagePath, importMap, emb) ==
    IF interfaceType.Methods = Nil THEN Ok(InterfaceTypeOf(<<>>), emb)
    ELSE InterfaceLoop(interfaceType.Methods.List, 1, packagePath, importMap,
                       emb, <<>>)

\* Wrap(r, variant): Type{variant: &r} when r is a value
Wrap(r, variant) ==
    IF r.st # "ok" THEN r ELSE Ok(Type(variant, r.val), r.rest)

generateTypeFromExpr(e, targetPkgPath, importMap, emb) ==
    CASE e.kind = "SelectorExpr" ->
             LET r == generateTypeFromSelectorExpr(e, importMap)
             IN  IF r.st # "ok" THEN r ELSE Ok(r.val, emb)
      [] e.kind = "Ident" ->
             Ok(generateTypeFromIdent(e, targetPkgPath, importMap), emb)
      [] e.kind = "StarExpr" ->
             Wrap(generateTypeFromStarExpr(e, targetPkgPath, importMap, emb),
                  "PtrType")
      [] e.kind = "ArrayType" ->
             generateTypeFromArrayType(e, targetPkgPath, importMap, emb)
      [] e.kind = "FuncType" ->
             Wrap(generateTypeFromFuncType(e, targetPkgPath, importMap, emb),
                  "FuncType")
      [] e.kind = "MapType" ->
             Wrap(generateTypeFromMapType(e, targetPkgPath, importMap, emb),
                  "MapType")
      [] e.kind = "ChanType" ->
             Wrap(generateTypeFromChanType(e, targetPkgPath, importMap, emb),
                  "ChanType")
      [] e.kind = "StructType" ->
             Wrap(generateTypeFromStructType(e, targetPkgPath, importMap, emb),
                  "StructType")
      [] e.kind = "InterfaceType" ->
             Wrap(generateTypeFromInterfaceType(e, targetPkgPath, importMap,
                                                emb),
                  "InterfaceType")
      [] OTHER -> Err("unrecognized type: %v", <<>>)

----------------------------------------------------------------------------
(* The import table and the declaration lookup of one parsed file *)

getImportNameFromPackagePath(packagePath) ==
    LET base == PathBase(packagePath)
    IN  IF base = <<>> THEN <<>> ELSE BeforeFirstDot(base)

TestMarker == <<"_", "t", "e", "s", "t">>

\* whether generateImportMap leaves the package's own entry out
IsTestPackageName(name) == Contains(name, TestMarker)

\* the import specs k.. of the file, added to importMap in source order
RECURSIVE ImportLoop(_, _, _)
ImportLoop(specs, k, importMap) ==
    IF k > Len(specs) THEN importMap
    ELSE IF specs[k].kind # "ImportSpec" THEN ImportLoop(specs, k + 1, importMap)
    ELSE LET importPath == TrimPrefix(TrimSuffix(specs[k].Path, <<"\"">>),
                                      <<"\"">>)
             importName == IF specs[k].Name # Nil THEN specs[k].Name.Name
                           ELSE getImportNameFromPackagePath(importPath)
         IN  ImportLoop(specs, k + 1, MapPut(importMap, importName, importPath))

generateImportMap(packagePath, file) ==
    LET importMap == ImportLoop(file.Specs, 1, EmptyMap)
    IN  IF ~IsTestPackageName(file.Name)
        THEN MapPut(importMap, packagePath \o ShortSuffix, file.Name)
        ELSE importMap

\* the first type spec of the file with this name, Nil when there is none
getDeclarationByName(f, name) ==
    LET at == {k \in 1..Len(f.Specs) :
                  f.Specs[k].kind = "TypeSpec" /\ f.Specs[k].Name = name}
    IN  IF at = {} THEN Nil
        ELSE f.Specs[CHOOSE k \in at : \A j \in at : k <= j]

----------------------------------------------------------------------------
(* The source tree the generator runs on: what the source finder answers   *)
(* and what each file holds.                                               *)
(*                                                                         *)
(*   p1.go   package p                                                     *)
(*           import "x/q"                                                  *)
(*           type A interface { Read(int, n int) (int, error) }            *)
(*           type S struct { f int; g *S; h q.T }                          *)
(*   p2.go   package p                                                     *)
(*           type B interface { A; Close() }                               *)
(*   p3.go   package p                                                     *)
(*           import "x/q"                                                  *)
(*           type C interface { Len() int; B; q.Q }                        *)
(*           type I interface { S }                                        *)
(*           type X interface { q.Y }                                      *)
(*   p4.go   (does not parse)                                              *)
(*   q1.go   package q                                                     *)
(*           type Q interface { Get() }                                    *)
(*   q2.go   package q                                                     *)
(*           import p "p"                                                  *)
(*           type Y interface { p.X }                                      *)
(*           type D interface { z.Q; D }                                   *)

PkgP == <<"p">>

PkgQ == <<"x", "/", "q">>

IntT == Ident(PrimitiveKindInt)

FileP1 ==
    File(<<"p">>,
         << ImportSpec(Nil, <<"\"", "x", "/", "q", "\"">>),
            TypeDecl(<<"A">>,
                InterfaceType(FieldList(<<
                    Field(<< <<"R", "e", "a", "d">> >>,
                          FuncType(FieldList(<< Field(<<>>, IntT),
                                                Field(<< <<"n">> >>, IntT) >>),
                                   FieldList(<< Field(<<>>, IntT),
                                                Field(<<>>, Ident(PrimitiveKindError)) >>)))
                >>))),
            TypeDecl(<<"S">>,
                StructType(FieldList(<<
                    Field(<< <<"f">> >>, IntT),
                    Field(<< <<"g">> >>, StarExpr(Ident(<<"S">>))),
                    Field(<< <<"h">> >>, SelectorExpr(Ident(<<"q">>), <<"T">>))
                >>))) >>)

FileP2 ==
    File(<<"p">>,
         << TypeDecl(<<"B">>,
                InterfaceType(FieldList(<<
                    Field(<<>>, Ident(<<"A">>)),
                    Field(<< <<"C", "l", "o", "s", "e">> >>,
                          FuncType(FieldList(<<>>), Nil))
                >>))) >>)

FileP3 ==
    File(<<"p">>,
         << ImportSpec(Nil, <<"\"", "x", "/", "q", "\"">>),
            TypeDecl(<<"C">>,
                InterfaceType(FieldList(<<
                    Field(<< <<"L", "e", "n">> >>,
                          FuncType(FieldList(<<>>),
                                   FieldList(<< Field(<<>>, IntT) >>))),
                    Field(<<>>, Ident(<<"B">>)),
                    Field(<<>>, SelectorExpr(Ident(<<"q">>), <<"Q">>))
                >>))),
            TypeDecl(<<"I">>,
                InterfaceType(FieldList(<< Field(<<>>, Ident(<<"S">>)) >>))),
            TypeDecl(<<"X">>,
                InterfaceType(FieldList(<<
                    Field(<<>>, SelectorExpr(Ident(<<"q">>), <<"Y">>)) >>))) >>)

FileQ1 ==
    File(<<"q">>,
         << TypeDecl(<<"Q">>,
                InterfaceType(FieldList(<<
                    Field(<< <<"G", "e", "t">> >>, FuncType(FieldList(<<>>), Nil))
                >>))) >>)

FileQ2 ==
    File(<<"q">>,
         << ImportSpec([Name |-> <<"p">>], <<"\"", "p", "\"">>),
            TypeDecl(<<"Y">>,
                InterfaceType(FieldList(<<
                    Field(<<>>, SelectorExpr(Ident(<<"p">>), <<"X">>)) >>))),
            TypeDecl(<<"D">>,
                InterfaceType(FieldList(<<
                    Field(<<>>, SelectorExpr(Ident(<<"z">>), <<"Q">>)),
                    Field(<<>>, Ident(<<"D">>)) >>))) >>)

\* a file's content: a syntax tree, or Nil where the parser rejects it
Disk ==
    (<<"p", "1">> :> FileP1) @@ (<<"p", "2">> :> FileP2) @@
    (<<"p", "3">> :> FileP3) @@ (<<"p", "4">> :> Nil) @@
    (<<"q", "1">> :> FileQ1) @@ (<<"q", "2">> :> FileQ2)

\* sourceFinder.GetPackageSourceFiles
Sources ==
    (PkgP :> << <<"p", "1">>, <<"p", "2">>, <<"p", "3">>, <<"p", "4">> >>) @@
    (PkgQ :> << <<"q", "1">>, <<"q", "2">> >>)

GetPackageSourceFiles(packagePath) ==
    IF packagePath \in DOMAIN Sources
    THEN [st |-> "ok", val |-> Sources[packagePath]]
    ELSE Err("package not found: %s", packagePath)

parseAstFile(filename) ==
    IF filename \notin DOMAIN Disk THEN Err("cannot open file: %w", filename)
    ELSE IF Disk[filename] = Nil THEN Err("cannot parse go code: %w", filename)
    ELSE [st |-> "ok", val |-> Disk[filename]]

----------------------------------------------------------------------------
(* The batch resolver.  A frame is one activation of                       *)
(* GenerateTypesFromSpecs, with the generateTypesInSinglePackage call it   *)
(* is in; pc is the place in the code:                                     *)
(*   "packages"  at the head of the loop over packagePathToSpecs           *)
(*   "files"     at the head of the loop over goSources                    *)
(*   "names"     in the loop over remainingNames                           *)
(*   "lower"     in generateTypeFromExpr for the declaration of curName    *)
(*   "return"    about to return out                                       *)

MaxRequests == 3

MaxDepth == 4

\* the names requested of package pkg, in request order
RECURSIVE NamesOf(_, _)
NamesOf(typeSpecs, pkg) ==
    IF typeSpecs = <<>> THEN <<>>
    ELSE IF Head(typeSpecs).PackagePath = pkg
         THEN <<Head(typeSpecs).Name>> \o NamesOf(Tail(typeSpecs), pkg)
         ELSE NamesOf(Tail(typeSpecs), pkg)

groupTypeSpecByPackage(typeSpecs) ==
    [pkg \in {typeSpecs[i].PackagePath : i \in 1..Len(typeSpecs)} |->
        NamesOf(typeSpecs, pkg)]

\* resultMap[TypeSpec{packagePath, specs[i]}] = types[i], for i = k..
RECURSIVE StoreTypes(_, _, _, _, _)
StoreTypes(resultMap, packagePath, specs, types, k) ==
    IF k > Len(types) THEN resultMap
    ELSE StoreTypes(MapPut(resultMap, TypeSpec(packagePath, specs[k]), types[k]),
                    packagePath, specs, types, k + 1)

\* a map read of a Type: the zero Type for a missing key
TypeAt(m, k) == IF k \in DOMAIN m THEN m[k] ELSE Type("none", Nil)

\* CollectResults, were it to walk the requests backwards
CollectResultsBackwards(typeSpecs, resultMap) ==
    [i \in 1..Len(typeSpecs) |->
        TypeAt(resultMap, typeSpecs[Len(typeSpecs) + 1 - i])]

\* the results slice: resultMap[spec] for each requested spec, in order
CollectResults(typeSpecs, resultMap) ==
    [i \in 1..Len(typeSpecs) |-> TypeAt(resultMap, typeSpecs[i])]

\* the results slice of one package: resultMap[name] for each name, in order
CollectPackage(names, resultMap) ==
    [i \in 1..Len(names) |-> TypeAt(resultMap, names[i])]

\* ScanDone, were the loop over goSources never left early
ScanDoneNever(remainingNames) == FALSE

\* whether the loop over goSources is left before opening the next file
ScanDone(remainingNames) == remainingNames = {}

Returned(val) == [st |-> "ok", val |-> val]

NewFrame(typeSpecs) ==
    [pc |-> "packages",
     typeSpecs |-> typeSpecs,
     groups |-> groupTypeSpecByPackage(typeSpecs),
     pkgsLeft |-> DOMAIN groupTypeSpecByPackage(typeSpecs),
     resultMap |-> EmptyMap,
     packagePath |-> <<>>,
     names |-> <<>>,
     goSources |-> <<>>,
     fileIdx |-> 0,
     remainingNames |-> {},
     pkgResults |-> EmptyMap,
     importMap |-> EmptyMap,
     toVisit |-> {},
     curName |-> <<>>,
     emb |-> <<>>,
     opened |-> <<>>,
     out |-> Nil]

Top == stack[Len(stack)]

SetTop(f) == stack' = [stack EXCEPT ![Len(stack)] = f]

\* the requests a caller may pass
Requestable ==
    { TypeSpec(PkgP, <<"A">>), TypeSpec(PkgP, <<"C">>), TypeSpec(PkgP, <<"I">>),
      TypeSpec(PkgP, <<"X">>), TypeSpec(PkgQ, <<"Q">>), TypeSpec(PkgQ, <<"D">>),
      TypeSpec(PkgQ, <<"Z", "z">>), TypeSpec(PkgQ, <<"Y", "y">>) }

RequestLists == UNION {[1..n -> Requestable] : n \in 0..MaxRequests}

Init ==
    /\ callArgs \in RequestLists
    /\ stack = <<>>
    /\ outcomes = <<>>
    /\ input = Nil
    /\ output = Nil

\* a caller invokes GenerateTypesFromSpecs(callArgs...)
Invoke ==
    /\ stack = <<>>
    /\ outcomes = <<>>
    /\ stack' = <<NewFrame(callArgs)>>
    /\ UNCHANGED <<callArgs, outcomes, input, output>>

\* the caller, the call having returned, makes the same call again
InvokeAgain ==
    /\ stack = <<>>
    /\ Len(outcomes) = 1
    /\ outcomes[1].st \in {"ok", "err"}
    /\ stack' = <<NewFrame(callArgs)>>
    /\ UNCHANGED <<callArgs, outcomes, input, output>>

\* the loop over packagePathToSpecs takes some package not yet visited and
\* asks the source finder for its files
EnterPackage ==
    /\ stack # <<>>
    /\ Top.pc = "packages"
    /\ \E packagePath \in Top.pkgsLeft :
          LET goSources == GetPackageSourceFiles(packagePath)
          IN  IF goSources.st # "ok"
              THEN SetTop([Top EXCEPT !.pc = "return", !.out = goSources])
              ELSE SetTop([Top EXCEPT
                      !.pc = "files",
                      !.pkgsLeft = @ \ {packagePath},
                      !.packagePath = packagePath,
                      !.names = Top.groups[packagePath],
                      !.goSources = goSources.val,
                      !.fileIdx = 1,
                      !.remainingNames =
                          {Top.groups[packagePath][i] :
                              i \in 1..Len(Top.groups[packagePath])},
                      !.pkgResults = EmptyMap,
                      !.opened = <<>>])
    /\ UNCHANGED <<callArgs, outcomes, input, output>>

\* every package is done: the results in request order
ReturnResults ==
    /\ stack # <<>>
    /\ Top.pc = "packages"
    /\ Top.pkgsLeft = {}
    /\ SetTop([Top EXCEPT
          !.pc = "return",
          !.out = Returned(CollectResults(Top.typeSpecs, Top.resultMap))])
    /\ UNCHANGED <<callArgs, outcomes, input, output>>

\* the next file of the package is opened, parsed and its import map built
OpenFile ==
    /\ stack # <<>>
    /\ Top.pc = "files"
    /\ Top.fileIdx <= Len(Top.goSources)
    /\ ~ScanDone(Top.remainingNames)
    /\ LET source == Top.goSources[Top.fileIdx]
           fileAst == parseAstFile(source)
       IN  IF fileAst.st # "ok"
           THEN SetTop([Top EXCEPT !.pc = "return", !.out = fileAst,
                                   !.opened = Append(@, source)])
           ELSE SetTop([Top EXCEPT
                   !.pc = "names",
                   !.opened = Append(@, source),
                   !.importMap = generateImportMap(Top.packagePath, fileAst.val),
                   !.toVisit = Top.remainingNames])
    /\ UNCHANGED <<callArgs, outcomes, input, output>>

\* FailNotFound, were the names still wanted dropped and the package's
\* other types kept
FailNotFoundDropped ==
    /\ stack # <<>>
    /\ Top.pc = "files"
    /\ Top.fileIdx > Len(Top.goSources) \/ ScanDone(Top.remainingNames)
    /\ Cardinality(Top.remainingNames) # 0
    /\ SetTop([Top EXCEPT
          !.pc = "packages",
          !.remainingNames = {},
          !.resultMap = StoreTypes(@, Top.packagePath, Top.names,
                                   CollectPackage(Top.names, Top.pkgResults), 1)])
    /\ UNCHANGED <<callArgs, outcomes, input, output>>

\* the loop over goSources is over and a name is still wanted: the error
\* names the first one the range over remainingNames yields
FailNotFound ==
    /\ stack # <<>>
    /\ Top.pc = "files"
    /\ Top.fileIdx > Len(Top.goSources) \/ ScanDone(Top.remainingNames)
    /\ Cardinality(Top.remainingNames) # 0
    /\ \E name \in Top.remainingNames :
          SetTop([Top EXCEPT
              !.pc = "return",
              !.out = Err("cannot find definition of %s. Probably you should organize your go.mod file and impots",
                          name)])
    /\ UNCHANGED <<callArgs, outcomes, input, output>>

\* the loop over goSources is over and every name was found: the package's
\* types go to the caller's resultMap
FinishPackage ==
    /\ stack # <<>>
    /\ Top.pc = "files"
    /\ Top.fileIdx > Len(Top.goSources) \/ ScanDone(Top.remainingNames)
    /\ Cardinality(Top.remainingNames) = 0
    /\ SetTop([Top EXCEPT
          !.pc = "packages",
          !.resultMap = StoreTypes(@, Top.packagePath, Top.names,
                                   CollectPackage(Top.names, Top.pkgResults), 1)])
    /\ UNCHANGED <<callArgs, outcomes, input, output>>

\* the range over remainingNames yields a name not yet visited in this file
VisitName ==
    /\ stack # <<>>
    /\ Top.pc = "names"
    /\ \E name \in Top.toVisit :
          IF getDeclarationByName(Disk[Top.goSources[Top.fileIdx]], name) = Nil
          THEN SetTop([Top EXCEPT !.toVisit = @ \ {name}])
          ELSE SetTop([Top EXCEPT !.pc = "lower", !.curName = name,
                                  !.emb = <<>>])
    /\ UNCHANGED <<callArgs, outcomes, input, output>>

\* the range over remainingNames is exhausted: on to the next file
NextFile ==
    /\ stack # <<>>
    /\ Top.pc = "names"
    /\ Top.toVisit = {}
    /\ SetTop([Top EXCEPT !.pc = "files", !.fileIdx = @ + 1])
    /\ UNCHANGED <<callArgs, outcomes, input, output>>

\* the lowering of curName's declaration, with the re-entrant results so far
Lowered ==
    generateTypeFromExpr(
        getDeclarationByName(Disk[Top.goSources[Top.fileIdx]], Top.curName).Type,
        Top.packagePath, Top.importMap, Top.emb)

\* the declaration is lowered and its type kept
LowerDone ==
    /\ stack # <<>>
    /\ Top.pc = "lower"
    /\ Lowered.st = "ok"
    /\ SetTop([Top EXCEPT
          !.pc = "names",
          !.pkgResults = MapPut(@, Top.curName, Lowered.val),
          !.remainingNames = @ \ {Top.curName},
          !.toVisit = @ \ {Top.curName}])
    /\ UNCHANGED <<callArgs, outcomes, input, output>>

\* the lowering fails: generateTypesInSinglePackage returns its error
LowerFail ==
    /\ stack # <<>>
    /\ Top.pc = "lower"
    /\ Lowered.st = "err"
    /\ SetTop([Top EXCEPT !.pc = "return", !.out = Lowered])
    /\ UNCHANGED <<callArgs, outcomes, input, output>>

\* the lowering reaches an embedded interface: a re-entrant call
LowerCall ==
    /\ stack # <<>>
    /\ Top.pc = "lower"
    /\ Lowered.st = "call"
    /\ Len(stack) < MaxDepth
    /\ stack' = Append(stack, NewFrame(<<Lowered.spec>>))
    /\ UNCHANGED <<callArgs, outcomes, input, output>>

\* StackOverflow, were the depth of the nesting checked and an error
\* returned to the caller
StackOverflowAsError ==
    /\ stack # <<>>
    /\ Top.pc = "lower"
    /\ Lowered.st = "call"
    /\ Len(stack) >= MaxDepth
    /\ stack' = <<>>
    /\ outcomes' = Append(outcomes, Err("embedding too deep: %s", Top.curName))
    /\ UNCHANGED <<callArgs, input, output>>

\* the re-entrant calls nest without end: the goroutine's stack is exhausted
\* and the process dies
StackOverflow ==
    /\ stack # <<>>
    /\ Top.pc = "lower"
    /\ Lowered.st = "call"
    /\ Len(stack) >= MaxDepth
    /\ stack' = <<>>
    /\ outcomes' = Append(outcomes, [st |-> "overflow"])
    /\ UNCHANGED <<callArgs, input, output>>

\* the lowering dereferences a nil pointer: a run-time panic nobody recovers
LowerPanic ==
    /\ stack # <<>>
    /\ Top.pc = "lower"
    /\ Lowered.st = "panic"
    /\ stack' = <<>>
    /\ outcomes' = Append(outcomes, [st |-> "panic"])
    /\ UNCHANGED <<callArgs, input, output>>

\* a re-entrant call returns into the lowering that made it
ReturnInner ==
    /\ Len(stack) > 1
    /\ Top.pc = "return"
    /\ stack' = [SubSeq(stack, 1, Len(stack) - 1) EXCEPT
                    ![Len(stack) - 1].emb = Append(@, Top.out)]
    /\ UNCHANGED <<callArgs, outcomes, input, output>>

\* the top-level call returns to the caller
ReturnOuter ==
    /\ Len(stack) = 1
    /\ Top.pc = "return"
    /\ stack' = <<>>
    /\ outcomes' = Append(outcomes, Top.out)
    /\ UNCHANGED <<callArgs, input, output>>

Next ==
    \/ Invoke
    \/ EnterPackage
    \/ ReturnResults
    \/ OpenFile
    \/ FailNotFound
    \/ FinishPackage
    \/ VisitName
    \/ NextFile
    \/ LowerDone
    \/ LowerFail
    \/ LowerCall
    \/ StackOverflow
    \/ LowerPanic
    \/ ReturnInner
    \/ ReturnOuter

Spec == Init /\ [][Next]_vars

\* the same call made twice in a row
SpecTwice == Init /\ [][Next \/ InvokeAgain]_vars

----------------------------------------------------------------------------
(* What the source tree says, read off without running the resolver *)

\* the files of a package that parse and declare name, by position
DeclaringFiles(spec) ==
    IF spec.PackagePath \notin DOMAIN Sources THEN {}
    ELSE {k \in 1..Len(Sources[spec.PackagePath]) :
            LET f == Disk[Sources[spec.PackagePath][k]]
            IN  f # Nil /\ getDeclarationByName(f, spec.Name) # Nil}

Min(S) == CHOOSE k \in S : \A j \in S : k <= j

\* the request names a declaration no file of its package holds
Missing(spec) ==
    /\ spec.PackagePath \in DOMAIN Sources
    /\ DeclaringFiles(spec) = {}

\* every file the source finder returns for the package parses
AllFilesParse(packagePath) ==
    \A k \in 1..Len(Sources[packagePath]) : Disk[Sources[packagePath][k]] # Nil

\* the file that declares spec first, and the declaration
FirstFile(spec) == Disk[Sources[spec.PackagePath][Min(DeclaringFiles(spec))]]

FirstDecl(spec) == getDeclarationByName(FirstFile(spec), spec.Name)

\* the resolution of one request on its own: its first declaration in file
\* order, lowered in that file's import table, each embedded interface
\* being the resolution of the request it refers to
RECURSIVE Resolution(_, _)
RECURSIVE LowerWith(_, _, _, _)
LowerWith(spec, importMap, emb, fuel) ==
    LET r == generateTypeFromExpr(FirstDecl(spec).Type, spec.PackagePath,
                                  importMap, emb)
    IN  IF r.st # "call" THEN r
        ELSE IF fuel = 0 THEN [st |-> "overflow"]
        ELSE LET inner == Resolution(r.spec, fuel - 1)
             IN  IF inner.st \in {"ok", "err"}
                 THEN LowerWith(spec, importMap,
                                Append(emb, IF inner.st = "ok"
                                            THEN Returned(<<inner.val>>)
                                            ELSE inner),
                                fuel)
                 ELSE inner

Resolution(spec, fuel) ==
    IF spec.PackagePath \notin DOMAIN Sources THEN Failed(Nil)
    ELSE IF DeclaringFiles(spec) = {} THEN Failed(Nil)
    ELSE IF \E k \in 1..Min(DeclaringFiles(spec)) :
                Disk[Sources[spec.PackagePath][k]] = Nil
         THEN Failed(Nil)
    ELSE LET r == LowerWith(spec,
                            generateImportMap(spec.PackagePath, FirstFile(spec)),
                            <<>>, fuel)
         IN  IF r.st = "ok" THEN [st |-> "ok", val |-> r.val]
             ELSE IF r.st = "err" THEN Failed(Nil)
             ELSE r

Resolves(spec) == Resolution(spec, MaxDepth).st = "ok"

\* C1: a call that succeeds returns as many types as it was given requests,
\* and the i-th type is the resolution of the i-th request.
C1_ResultsInRequestOrder ==
    \A c \in 1..Len(outcomes) :
        outcomes[c].st = "ok" =>
            /\ Len(outcomes[c].val) = Len(callArgs)
            /\ \A i \in 1..Len(callArgs) :
                  /\ Resolves(callArgs[i])
                  /\ outcomes[c].val[i] = Resolution(callArgs[i], MaxDepth).val

\* a successful call on three requests, the first and the third the same
\* request of one package, the second a request of another package with
\* a different type
C1_Witness ==
    /\ Len(outcomes) > 0
    /\ outcomes[1].st = "ok"
    /\ Len(callArgs) = 3
    /\ callArgs[1] = callArgs[3]
    /\ callArgs[1].PackagePath # callArgs[2].PackagePath
    /\ outcomes[1].val[1] = outcomes[1].val[3]
    /\ outcomes[1].val[1] # outcomes[1].val[2]

SomeMissing == \E i \in 1..Len(callArgs) : Missing(callArgs[i])

NotFoundFormat ==
    "cannot find definition of %s. Probably you should organize your go.mod file and impots"

NamesMissing(o) ==
    /\ o.st = "err"
    /\ o.err.Format = NotFoundFormat
    /\ \E i \in 1..Len(callArgs) :
          Missing(callArgs[i]) /\ o.err.Arg = callArgs[i].Name

\* C2 as claimed: when some requested name is declared in no file of its
\* package, the call returns an error naming a missing declaration.
C2_AlwaysNamesMissing ==
    SomeMissing => \A c \in 1..Len(outcomes) : NamesMissing(outcomes[c])

\* C2 as amended: when some requested name is declared in no file of its
\* package, the call returns no types; and when every file of the packages
\* with a missing name parses and every other request resolves, the error
\* it returns names a missing declaration.
C2_NoPartialSuccess ==
    SomeMissing =>
        \A c \in 1..Len(outcomes) :
            /\ outcomes[c].st # "ok"
            /\ (\A i \in 1..Len(callArgs) :
                    IF Missing(callArgs[i])
                    THEN AllFilesParse(callArgs[i].PackagePath)
                    ELSE Resolves(callArgs[i]))
               => NamesMissing(outcomes[c])

\* a call fails naming the missing declaration although its other requests,
\* one of the same and one of another package, are declared and resolve
C2_Witness ==
    /\ Len(outcomes) > 0
    /\ NamesMissing(outcomes[1])
    /\ \E i, j \in 1..Len(callArgs) :
          /\ Resolves(callArgs[i]) /\ Resolves(callArgs[j])
          /\ callArgs[i].PackagePath # callArgs[j].PackagePath

----------------------------------------------------------------------------
(* Interface embedding *)

IsInterfaceDecl(spec) ==
    DeclaringFiles(spec) # {} /\ FirstDecl(spec).Type.kind = "InterfaceType"

\* the request an embedding member of spec's declaration refers to
EmbeddedSpec(spec, member) ==
    IF member.Type.kind = "Ident"
    THEN TypeSpec(spec.PackagePath, member.Type.Name)
    ELSE TypeSpec(MapGet(generateImportMap(spec.PackagePath, FirstFile(spec)),
                         member.Type.X.Name),
                  member.Type.Sel)

\* the flat method list of an interface declaration: its members k.. in
\* source order, a method as it is and an embedding reference as the flat
\* method list of the interface it refers to
RECURSIVE Expand(_, _, _)
Expand(spec, k, fuel) ==
    LET list == FirstDecl(spec).Type.Methods.List
    IN  IF k > Len(list) \/ fuel = 0 THEN <<>>
        ELSE (IF list[k].Type.kind = "FuncType"
              THEN << InterfaceTypeMethod(
                          list[k].Names[1],
                          generateTypeFromFuncType(
                              list[k].Type, spec.PackagePath,
                              generateImportMap(spec.PackagePath, FirstFile(spec)),
                              <<>>).val) >>
              ELSE Expand(EmbeddedSpec(spec, list[k]), 1, fuel - 1))
             \o Expand(spec, k + 1, fuel)

MethodNames(methods) == [i \in 1..Len(methods) |-> methods[i].Name]

\* C5: an interface resolves to the flat method list in which every
\* embedding reference stands replaced, where it stood, by the expanded
\* method list of the interface it refers to.
C5_EmbeddedMethodsSpliced ==
    \A c \in 1..Len(outcomes) :
        outcomes[c].st = "ok" =>
            \A i \in 1..Len(callArgs) :
                IsInterfaceDecl(callArgs[i]) =>
                    outcomes[c].val[i] =
                        Type("InterfaceType",
                             InterfaceTypeOf(Expand(callArgs[i], 1, MaxDepth)))

\* C of package p resolved: its own Len, then B's methods (A's Read from
\* another file, then Close), then Get of q.Q
C5_Witness ==
    /\ Len(outcomes) > 0
    /\ outcomes[1].st = "ok"
    /\ \E i \in 1..Len(callArgs) :
          /\ callArgs[i] = TypeSpec(PkgP, <<"C">>)
          /\ MethodNames(outcomes[1].val[i].p.Methods) =
                << <<"L", "e", "n">>, <<"R", "e", "a", "d">>,
                   <<"C", "l", "o", "s", "e">>, <<"G", "e", "t">> >>

\* the request embeds, directly, a name declared as something else than
\* an interface
EmbedsNonInterface(spec) ==
    /\ IsInterfaceDecl(spec)
    /\ \E k \in 1..Len(FirstDecl(spec).Type.Methods.List) :
          LET member == FirstDecl(spec).Type.Methods.List[k]
          IN  /\ member.Type.kind \in {"Ident", "SelectorExpr"}
              /\ Resolves(EmbeddedSpec(spec, member))
              /\ Resolution(EmbeddedSpec(spec, member), MaxDepth).val.v
                     # "InterfaceType"

\* C6: a call with a request that embeds a name resolving to something
\* else than an interface ends by returning an error.
C6_NonInterfaceEmbeddingIsError ==
    \A c \in 1..Len(outcomes) :
        (\E i \in 1..Len(callArgs) : EmbedsNonInterface(callArgs[i]))
            => outcomes[c].st = "err"

\* C7: the second of two calls with the same requests over the same
\* sources returns what the first returned.
C7_SameOutcomeTwice ==
    Len(outcomes) = 2 => outcomes[1] = outcomes[2]

----------------------------------------------------------------------------
(* The scan of a package's files *)

\* the position of the first file declaring the name, past the last file
\* when no file does
FirstDeclaredAt(packagePath, name) ==
    IF DeclaringFiles(TypeSpec(packagePath, name)) = {}
    THEN Len(Sources[packagePath]) + 1
    ELSE Min(DeclaringFiles(TypeSpec(packagePath, name)))

\* C8: in every scan the files opened are the first files the source
\* finder returned, in its order, and each opened file is the one some
\* wanted name is first declared in or comes before it; a scan that has
\* found every name has a type for each.
C8_ScanStopsWhenAllFound ==
    \A d \in 1..Len(stack) :
        LET f == stack[d]
        IN  /\ f.opened = SubSeq(f.goSources, 1, Len(f.opened))
            /\ \A k \in 1..Len(f.opened) :
                  \E i \in 1..Len(f.names) :
                      k <= FirstDeclaredAt(f.packagePath, f.names[i])
            /\ (f.pc = "files" /\ f.remainingNames = {}) =>
                  \A i \in 1..Len(f.names) : f.names[i] \in DOMAIN f.pkgResults

\* the call found A in the first and C in the third file of package p and
\* returns their types; the fourth file, which does not parse, was not opened
C8_Witness ==
    /\ Len(stack) = 1
    /\ Top.pc = "return"
    /\ Top.out.st = "ok"
    /\ Top.typeSpecs = <<TypeSpec(PkgP, <<"A">>), TypeSpec(PkgP, <<"C">>)>>
    /\ Top.opened = << <<"p", "1">>, <<"p", "2">>, <<"p", "3">> >>
    /\ Len(Top.goSources) = 4
    /\ Disk[Top.goSources[4]] = Nil
    /\ Top.out.val[1] # Top.out.val[2]

----------------------------------------------------------------------------
(* Cyclic embedding *)

\* the requests the declaration of spec embeds
Embedded(spec) ==
    IF ~IsInterfaceDecl(spec) THEN {}
    ELSE LET list == FirstDecl(spec).Type.Methods.List
         IN  {EmbeddedSpec(spec, list[k]) :
                 k \in {j \in 1..Len(list) :
                           /\ list[j].Type.kind \in {"Ident", "SelectorExpr"}
                           /\ list[j].Type.kind = "SelectorExpr"
                                 => list[j].Type.X.kind = "Ident"}}

\* the requests the type specs of a file answer
DeclaredIn(pkg, file) ==
    {TypeSpec(pkg, file.Specs[j].Name) :
        j \in {j \in 1..Len(file.Specs) : file.Specs[j].kind = "TypeSpec"}}

Declared ==
    UNION {UNION {DeclaredIn(pkg, Disk[Sources[pkg][k]]) :
                     k \in {k \in 1..Len(Sources[pkg]) :
                               Disk[Sources[pkg][k]] # Nil}} :
           pkg \in DOMAIN Sources}

\* the requests reachable from the set S in one or more embedding steps
RECURSIVE ReachableFrom(_, _)
ReachableFrom(S, n) ==
    IF n = 0 THEN {}
    ELSE LET step == UNION {Embedded(s) : s \in S}
         IN  step \cup ReachableFrom(step, n - 1)

OnCycle(spec) == spec \in ReachableFrom({spec}, Cardinality(Declared))

\* a cycle of embeddings is reachable from the request
ReachesCycle(spec) ==
    OnCycle(spec)
    \/ \E s \in ReachableFrom({spec}, Cardinality(Declared)) : OnCycle(s)

\* the request frame d is lowering the declaration of
Expanding(d) == TypeSpec(stack[d].packagePath, stack[d].curName)

\* a re-entrant call was issued for a request that is being expanded
Reentered ==
    \E d, e \in 1..Len(stack) :
        /\ d < e
        /\ stack[d].pc = "lower"
        /\ stack[e].typeSpecs = <<Expanding(d)>>

\* C9 as claimed: a call with a request from which a cycle of embeddings
\* is reachable, all files parsing, returns neither a result nor an error.
C9_CycleNeverReturns ==
    (\E i \in 1..Len(callArgs) :
        /\ ReachesCycle(callArgs[i])
        /\ \A j \in 1..Len(callArgs) : AllFilesParse(callArgs[j].PackagePath))
        => \A c \in 1..Len(outcomes) : outcomes[c].st \notin {"ok", "err"}

\* C9 as amended: a call with a request from which a cycle of embeddings
\* is reachable never returns a result, and once a re-entrant call is
\* issued for a request that is being expanded the call returns nothing:
\* the nesting stays and grows until the stack is exhausted.
C9_CycleNeverSucceeds ==
    /\ [](\A c \in 1..Len(outcomes) :
            outcomes[c].st = "ok" =>
                \A i \in 1..Len(callArgs) : ~ReachesCycle(callArgs[i]))
    /\ [][Reentered =>
            \/ Reentered' /\ Len(stack') >= Len(stack) - 1 /\ outcomes' = outcomes
            \/ stack' = <<>> /\ outcomes'[Len(outcomes')].st = "overflow"]_vars

\* the nesting has reached the bound with nothing but repetitions of a
\* request under expansion
C9_Witness ==
    /\ Reentered
    /\ Len(stack) = MaxDepth
    /\ Top.pc = "lower"
    /\ Top.typeSpecs = <<Expanding(Len(stack))>>

----------------------------------------------------------------------------
(* generateTypeFromIdent on its own *)

\* identifiers: the primitive names as they are, capitalized and in upper
\* case, and names that are none of them
Identifiers ==
    PrimitiveNames
    \cup {Capitalize(n) : n \in PrimitiveNames}
    \cup {ToUpper(n) : n \in PrimitiveNames}
    \cup { <<"T">>, <<"i", "n">>, <<"i", "n", "t", "s">>, <<"S">>,
           <<"e", "r", "r">> }

\* import tables: of a file of package p, and of a file of its test package
ImportMaps ==
    { generateImportMap(PkgP, FileP1),
      generateImportMap(PkgP, File(<<"p", "_", "t", "e", "s", "t">>, <<>>)) }

InitIdent ==
    /\ callArgs = <<>>
    /\ stack = <<>>
    /\ outcomes = <<>>
    /\ input \in [Name : Identifiers, importMap : ImportMaps]
    /\ output = Nil

LowerIdent ==
    /\ output = Nil
    /\ output' = generateTypeFromIdent(Ident(input.Name), PkgP, input.importMap)
    /\ UNCHANGED <<callArgs, stack, outcomes, input>>

SpecIdent == InitIdent /\ [][LowerIdent]_vars

QualifiedLocal(name, importMap) ==
    Type("QualType",
         QualType(PkgP, MapGet(importMap, PkgP \o ShortSuffix), name))

\* C3 as claimed: an identifier that is, whatever its case, the name of a
\* primitive kind or "error" lowers to that primitive; any other lowers to
\* a qualified reference to the target package under its own short name.
C3_CaseInsensitiveMatch ==
    output # Nil =>
        IF ToLower(input.Name) \in PrimitiveNames
        THEN output = Type("PrimitiveType", PrimitiveType(ToLower(input.Name)))
        ELSE output = QualifiedLocal(input.Name, input.importMap)

\* C3 as amended: an identifier that is, letter for letter, the name of a
\* primitive kind or "error" lowers to that primitive; any other, a
\* differently-cased spelling of such a name included, lowers to a qualified
\* reference to the target package under its own short name.
C3_ExactMatch ==
    output # Nil =>
        IF input.Name \in PrimitiveNames
        THEN output = Type("PrimitiveType", PrimitiveType(input.Name))
        ELSE output = QualifiedLocal(input.Name, input.importMap)

\* Error, which is "error" but for its case, lowered to a qualified reference
C3_Witness ==
    /\ input # Nil
    /\ input.Name = <<"E", "r", "r", "o", "r">>
    /\ output = Type("QualType", QualType(PkgP, <<"p">>, input.Name))

----------------------------------------------------------------------------
(* generateTypeFromFuncType on its own *)

MaxFields == 3

\* entries of a field list: unnamed, with one name, with two names
Entries ==
    { Field(<<>>, IntT),
      Field(<< <<"a">> >>, IntT),
      Field(<< <<"b">> >>, Ident(PrimitiveKindString)),
      Field(<< <<"c">>, <<"d">> >>, IntT) }

FieldLists == UNION {[1..n -> Entries] : n \in 0..MaxFields}

InitFunc ==
    /\ callArgs = <<>>
    /\ stack = <<>>
    /\ outcomes = <<>>
    /\ input \in {FuncType(FieldList(ps), rs) :
                     ps \in FieldLists,
                     rs \in {Nil} \cup {FieldList(l) : l \in FieldLists}}
    /\ output = Nil

LowerFunc ==
    /\ output = Nil
    /\ output' = generateTypeFromFuncType(input, PkgP,
                                          generateImportMap(PkgP, FileP1), <<>>)
    /\ UNCHANGED <<callArgs, stack, outcomes, input>>

SpecFunc == InitFunc /\ [][LowerFunc]_vars

\* the number of entries without names among the first k of the list
UnnamedUpTo(list, k) ==
    Cardinality({j \in 1..k : Len(list[j].Names) = 0})

\* the named fields the entries k.. of a list are to yield
RECURSIVE ExpectedFields(_, _, _)
ExpectedFields(list, prefix, k) ==
    IF k > Len(list) THEN <<>>
    ELSE LET typ == generateTypeFromIdent(list[k].Type, PkgP,
                                          generateImportMap(PkgP, FileP1))
         IN  (IF Len(list[k].Names) = 0
              THEN << TypeField(prefix \o Itoa(UnnamedUpTo(list, k)), typ) >>
              ELSE [j \in 1..Len(list[k].Names) |->
                       TypeField(list[k].Names[j], typ)])
             \o ExpectedFields(list, prefix, k + 1)

\* C4: the parameters of a lowered signature are, in source order, one
\* field per name of a named entry and one field "arg"+n for the n-th
\* unnamed entry; the results likewise with "out" and a count of their own.
C4_FieldNames ==
    output # Nil =>
        /\ output.st = "ok"
        /\ output.val.Inputs =
              ExpectedFields(input.Params.List, <<"a", "r", "g">>, 1)
        /\ output.val.Outputs =
              IF input.Results = Nil THEN <<>>
              ELSE ExpectedFields(input.Results.List, <<"o", "u", "t">>, 1)

\* func(a int, int, b string) (int, c, d int, int): parameters a, arg1, b
\* and results out1, c, d, out2
C4_Witness ==
    /\ output # Nil
    /\ input.Params.List = << Field(<< <<"a">> >>, IntT), Field(<<>>, IntT),
                              Field(<< <<"b">> >>, Ident(PrimitiveKindString)) >>
    /\ [i \in 1..Len(output.val.Inputs) |-> output.val.Inputs[i].Name] =
          << <<"a">>, <<"a", "r", "g", "1">>, <<"b">> >>
    /\ [i \in 1..Len(output.val.Outputs) |-> output.val.Outputs[i].Name] =
          << <<"o", "u", "t", "1">>, <<"c">>, <<"d">>, <<"o", "u", "t", "2">> >>

----------------------------------------------------------------------------
(* generateImportMap on its own *)

MaxNameLen == 6

\* package names: the strings of these characters
PackageNames ==
    UNION {[1..n -> {"a", "_", "t", "e", "s"}] : n \in 1..MaxNameLen}

InitImport ==
    /\ callArgs = <<>>
    /\ stack = <<>>
    /\ outcomes = <<>>
    /\ input \in {File(name, <<ImportSpec(Nil, <<"\"", "x", "/", "q", "\"">>)>>) :
                     name \in PackageNames}
    /\ output = Nil

\* the import table of the file, and a local identifier lowered with it
BuildImportMap ==
    /\ output = Nil
    /\ output' =
          [importMap |-> generateImportMap(PkgP, input),
           local |-> generateTypeFromIdent(Ident(<<"T">>), PkgP,
                                           generateImportMap(PkgP, input))]
    /\ UNCHANGED <<callArgs, stack, outcomes, input>>

SpecImport == InitImport /\ [][BuildImportMap]_vars

\* C10: the import table holds the entry of the package's own short name,
\* the file's package name, exactly when that name does not end in "_test";
\* without the entry a local identifier's short alias is empty.
C10_SelfEntryUnlessTestSuffix ==
    output # Nil =>
        /\ (PkgP \o ShortSuffix) \in DOMAIN output.importMap
              <=> ~HasSuffix(input.Name, TestMarker)
        /\ (PkgP \o ShortSuffix) \in DOMAIN output.importMap
              => output.importMap[PkgP \o ShortSuffix] = input.Name
        /\ (PkgP \o ShortSuffix) \notin DOMAIN output.importMap
              => output.local.p.ShortPackagePath = <<>>

=============================================================================
